---- MODULE Spec2Model ----
(***************************************************************************)
(* Model of generator/generator.go of go-kallax: the template file         *)
(* Generator (writeFile) and the MigrationGenerator (Build, Generate,      *)
(* LoadLock, writeMigration, createFile, migrationFile, slugify).          *)
(*                                                                         *)
(* Strings are sequences of one-rune strings; file contents are sequences  *)
(* of tokens <<kind, n>>.  A Go pointer is a sequence of length 0 (nil) or *)
(* 1; an error is a record, NoErr standing for the nil error.              *)
(***************************************************************************)
EXTENDS Integers, Sequences, FiniteSets, TLC

VARIABLES rawName, name, clock, fs, calls, ret, allOk, lastLock,
          filename, gfs, gret

vars == <<rawName, name, clock, fs, calls, ret, allOk, lastLock,
          filename, gfs, gret>>

migVars == <<clock, fs, calls, ret, allOk, lastLock>>
genVars == <<filename, gfs, gret>>

(***************************************************************************)
(* Bounds                                                                  *)
(***************************************************************************)
MaxNameLen == 3
MaxTicks == 1
MaxCalls == 2
MaxPartial == 2
MaxTables == 1

(***************************************************************************)
(* Generic helpers                                                         *)
(***************************************************************************)
Min(a, b) == IF a < b THEN a ELSE b

(***************************************************************************)
(* slugify                                                                 *)
(***************************************************************************)
\* Runes of the model: ASCII upper/lower letters, digits, the three
\* separators, punctuation, a non-ASCII letter with its lower case, and
\* U+212A KELVIN SIGN, which unicode.ToLower maps to ASCII 'k'.
Runes == {"A", "z", "7", " ", "_", "-", "!", "E_ACUTE", "KELVIN"}

LowerAZ == {"a", "z", "k"}
DigitRunes == {"7"}

ToLowerRune(r) ==
    CASE r = "A" -> "a"
      [] r = "E_ACUTE" -> "e_acute"
      [] r = "KELVIN" -> "k"
      [] OTHER -> r

RECURSIVE ToLower(_)
ToLower(str) ==
    IF str = <<>> THEN <<>>
    ELSE <<ToLowerRune(Head(str))>> \o ToLower(Tail(str))

\* slugify without strings.ToLower
RECURSIVE slugifyNoLower(_)
slugifyNoLower(str) ==
    IF str = <<>> THEN <<>>
    ELSE LET r == Head(str)
         IN  (IF r \in LowerAZ \/ r \in DigitRunes THEN <<r>>
              ELSE IF r = " " \/ r = "_" \/ r = "-" THEN <<"_">>
              ELSE <<>>) \o slugifyNoLower(Tail(str))

RECURSIVE slugifyLoop(_)
slugifyLoop(lowered) ==
    IF lowered = <<>> THEN <<>>
    ELSE LET r == Head(lowered)
         IN  (IF r \in LowerAZ \/ r \in DigitRunes THEN <<r>>
              ELSE IF r = " " \/ r = "_" \/ r = "-" THEN <<"_">>
              ELSE <<>>) \o slugifyLoop(Tail(lowered))

slugify(str) == slugifyLoop(ToLower(str))

Names == UNION {[1..n -> Runes] : n \in 0..MaxNameLen}

\* NewMigrationGenerator(name, dir): the generator keeps the slug of the name.
NewMigrationGenerator(n) ==
    /\ rawName' = n
    /\ name' = slugify(n)
    /\ UNCHANGED <<migVars, genVars>>

(***************************************************************************)
(* File names                                                              *)
(***************************************************************************)
Dir == <<"m">>

\* filepath.Join of a directory and a base name
Join(d, base) == d \o <<"/">> \o base

migrationUp == <<"u", "p", ".", "s", "q", "l">>
migrationDown == <<"d", "o", "w", "n", ".", "s", "q", "l">>
migrationLock == <<"l", "o", "c", "k", ".", "j", "s", "o", "n">>

DigitChar(d) == <<"0", "1", "2", "3", "4", "5", "6", "7", "8", "9">>[d + 1]

\* the %d verb of fmt.Sprintf on a non-negative integer
RECURSIVE FormatInt(_)
FormatInt(n) ==
    IF n < 10 THEN <<DigitChar(n)>>
    ELSE FormatInt(n \div 10) \o <<DigitChar(n % 10)>>

\* migrationFile ignoring the file type
migrationFileNoType(g_name, typ, t) ==
    Join(Dir, FormatInt(t) \o <<"_">> \o g_name \o <<".">> \o migrationUp)

\* fmt.Sprintf("%d_%s.%s", t.Unix(), g.name, typ) joined to g.dir
migrationFile(g_name, typ, t) ==
    Join(Dir, FormatInt(t) \o <<"_">> \o g_name \o <<".">> \o typ)

lockFile == Join(Dir, migrationLock)

(***************************************************************************)
(* Schemas, migrations and their text encodings                            *)
(***************************************************************************)
Tables == 1..MaxTables

\* a DBSchema is the set of its table names
Snapshots == SUBSET Tables

EmptySchema == {}

RECURSIVE SortedSeq(_)
SortedSeq(S) ==
    IF S = {} THEN <<>>
    ELSE LET m == CHOOSE x \in S : \A y \in S : x <= y
         IN  <<m>> \o SortedSeq(S \ {m})

Reverse(s) == [i \in 1..Len(s) |-> s[Len(s) + 1 - i]]

CreateTable(t) == <<"create", t>>
DropTable(t) == <<"drop", t>>

Inverse(c) == IF c[1] = "create" THEN DropTable(c[2]) ELSE CreateTable(c[2])

Diff(old, new) ==
    [i \in 1..Cardinality(new \ old) |-> CreateTable(SortedSeq(new \ old)[i])]
    \o [i \in 1..Cardinality(old \ new) |-> DropTable(SortedSeq(old \ new)[i])]

NewMigration(old, new) ==
    LET up == Diff(old, new)
    IN  [Up |-> up,
         Down |-> [i \in 1..Len(up) |-> Inverse(Reverse(up)[i])],
         Lock |-> new]

Migrations == {NewMigration(o, n) : o \in Snapshots, n \in Snapshots}

\* DBSchema.MarshalText: an object holding the tables in name order
MarshalSchema(S) ==
    <<<<"{", 0>>>> \o [i \in 1..Cardinality(S) |-> <<"table", SortedSeq(S)[i]>>]
    \o <<<<"}", 0>>>>

\* ChangeSet.MarshalText: one terminated statement per change
RECURSIVE MarshalChanges(_)
MarshalChanges(cs) ==
    IF cs = <<>> THEN <<>>
    ELSE <<Head(cs), <<";", 0>>>> \o MarshalChanges(Tail(cs))

WellFormedSchemaText(data) ==
    /\ Len(data) >= 2
    /\ data[1] = <<"{", 0>>
    /\ data[Len(data)] = <<"}", 0>>
    /\ \A i \in 2..(Len(data) - 1) : data[i][1] = "table"
    /\ \A i \in 2..(Len(data) - 2) : data[i][2] < data[i + 1][2]

\* json.Unmarshal into a DBSchema: [ok, schema]
UnmarshalSchema(data) ==
    IF WellFormedSchemaText(data)
    THEN [ok |-> TRUE, schema |-> {data[i][2] : i \in 2..(Len(data) - 1)}]
    ELSE [ok |-> FALSE, schema |-> EmptySchema]

(***************************************************************************)
(* Pointers and errors                                                     *)
(***************************************************************************)
Nil == <<>>
Ptr(x) == <<x>>

NoErr == [msg |-> "nil", file |-> <<>>]
Errorf(msg, file) == [msg |-> msg, file |-> file]

(***************************************************************************)
(* The migrations directory                                                *)
(***************************************************************************)
\* a file system maps the paths of the existing files to their contents
Put(fsys, f, data) ==
    [x \in (DOMAIN fsys) \cup {f} |-> IF x = f THEN data ELSE fsys[x]]

Remove(fsys, f) == [x \in (DOMAIN fsys) \ {f} |-> fsys[x]]

EmptyDir == [x \in {} |-> <<>>]

\* outcome of one createFile call: which step fails, if any, and how many
\* tokens a failing Write put on disk before it failed
Outcomes ==
    {[kind |-> k, n |-> 0] : k \in {"ok", "marshal", "open"}}
    \cup {[kind |-> "write", n |-> i] : i \in 0..MaxPartial}

\* outcomes of the three createFile calls of one writeMigration; the loop
\* returns at the first failure, so at most one call fails
OutcomeVectors ==
    {ocs \in [1..3 -> Outcomes] :
        Cardinality({i \in 1..3 : ocs[i].kind # "ok"}) <= 1}

MarshalText(content) ==
    IF content.kind = "schema" THEN MarshalSchema(content.val)
    ELSE MarshalChanges(content.val)

\* createFile opening the file without O_TRUNC: old content past the new
\* data stays in the file
createFileNoTrunc(fsys, file, marshaler, oc) ==
    LET data == MarshalText(marshaler)
        old == IF file \in DOMAIN fsys THEN fsys[file] ELSE <<>>
        keep(new) == new \o SubSeq(old, Len(new) + 1, Len(old))
    IN  IF oc.kind = "marshal"
        THEN [fs |-> fsys, err |-> Errorf("marshal", <<>>)]
        ELSE IF oc.kind = "open"
        THEN [fs |-> fsys, err |-> Errorf("error opening file", file)]
        ELSE IF oc.kind = "write" /\ Len(data) > 0
        THEN [fs |-> Put(fsys, file,
                         keep(SubSeq(data, 1, Min(oc.n, Len(data) - 1)))),
              err |-> Errorf("error writing file", file)]
        ELSE [fs |-> Put(fsys, file, keep(data)), err |-> NoErr]

\* createFile: [fs, err]
createFile(fsys, file, marshaler, oc) ==
    LET data == MarshalText(marshaler)
    IN  IF oc.kind = "marshal"
        THEN [fs |-> fsys, err |-> Errorf("marshal", <<>>)]
        ELSE IF oc.kind = "open"
        THEN [fs |-> fsys, err |-> Errorf("error opening file", file)]
        ELSE IF oc.kind = "write" /\ Len(data) > 0
        THEN [fs |-> Put(fsys, file, SubSeq(data, 1, Min(oc.n, Len(data) - 1))),
              err |-> Errorf("error writing file", file)]
        ELSE [fs |-> Put(fsys, file, data), err |-> NoErr]

\* the loop going on to the next file after a failed createFile
RECURSIVE writeLoopKeepGoing(_, _, _, _, _)
writeLoopKeepGoing(fsys, files, ocs, i, log) ==
    IF i > Len(files) THEN [fs |-> fsys, err |-> NoErr, log |-> log]
    ELSE LET r == createFile(fsys, files[i].file, files[i].content, ocs[i])
             l == Append(log, [file |-> files[i].file, err |-> r.err])
         IN  writeLoopKeepGoing(r.fs, files, ocs, i + 1, l)

\* the range loop of writeMigration from index i on: [fs, err, log]
RECURSIVE writeLoop(_, _, _, _, _)
writeLoop(fsys, files, ocs, i, log) ==
    IF i > Len(files) THEN [fs |-> fsys, err |-> NoErr, log |-> log]
    ELSE LET r == createFile(fsys, files[i].file, files[i].content, ocs[i])
             l == Append(log, [file |-> files[i].file, err |-> r.err])
         IN  IF r.err # NoErr
             THEN [fs |-> r.fs, err |-> r.err, log |-> l]
             ELSE writeLoop(r.fs, files, ocs, i + 1, l)

migrationFiles(g_name, migration, t) ==
    << [file |-> Join(Dir, migrationLock),
        content |-> [kind |-> "schema", val |-> migration.Lock]],
       [file |-> migrationFile(g_name, migrationDown, t),
        content |-> [kind |-> "changes", val |-> migration.Down]],
       [file |-> migrationFile(g_name, migrationUp, t),
        content |-> [kind |-> "changes", val |-> migration.Up]] >>

\* writeMigration: [fs, err, log, nowCalls, t]; now is the clock reading
writeMigration(fsys, g_name, migration, now, ocs) ==
    LET t == now
        w == writeLoop(fsys, migrationFiles(g_name, migration, t), ocs, 1, <<>>)
    IN  [fs |-> w.fs, err |-> w.err, log |-> w.log, nowCalls |-> 1, t |-> t]

\* Generate without the early return on an empty Up list
GenerateResultNoEmptyCheck(fsys, g_name, migration, now, ocs) ==
    writeMigration(fsys, g_name, migration, now, ocs)

\* MigrationGenerator.Generate as a function of the directory
GenerateResult(fsys, g_name, migration, now, ocs) ==
    IF Len(migration.Up) = 0
    THEN [fs |-> fsys, err |-> NoErr, log |-> <<>>, nowCalls |-> 0, t |-> 0]
    ELSE writeMigration(fsys, g_name, migration, now, ocs)

\* ioutil.ReadFile: [err, data]
ReadFile(fsys, file, fault) ==
    IF file \notin DOMAIN fsys THEN [err |-> "notexist", data |-> <<>>]
    ELSE IF fault THEN [err |-> "io", data |-> <<>>]
    ELSE [err |-> "nil", data |-> fsys[file]]

\* LoadLock treating a missing lock file as any other read error
LoadLockNoBootstrap(fsys, fault) ==
    LET rd == ReadFile(fsys, Join(Dir, migrationLock), fault)
    IN  IF rd.err # "nil"
        THEN [schema |-> Nil, err |-> Errorf("error opening lock file", <<>>)]
        ELSE LET u == UnmarshalSchema(rd.data)
             IN  IF ~u.ok
                 THEN [schema |-> Nil,
                       err |-> Errorf("error unmarshaling lock schema", <<>>)]
                 ELSE [schema |-> Ptr(u.schema), err |-> NoErr]

\* LoadLock: [schema, err]
LoadLock(fsys, fault) ==
    LET rd == ReadFile(fsys, Join(Dir, migrationLock), fault)
    IN  IF rd.err = "notexist"
        THEN [schema |-> Ptr(EmptySchema), err |-> NoErr]
        ELSE IF rd.err # "nil"
        THEN [schema |-> Nil, err |-> Errorf("error opening lock file", <<>>)]
        ELSE LET u == UnmarshalSchema(rd.data)
             IN  IF ~u.ok
                 THEN [schema |-> Nil,
                       err |-> Errorf("error unmarshaling lock schema", <<>>)]
                 ELSE [schema |-> Ptr(u.schema), err |-> NoErr]

\* results of the schema extractor
SchemaResults ==
    {[schema |-> Ptr(S), err |-> NoErr] : S \in Snapshots}
    \cup {[schema |-> Nil, err |-> Errorf("schema", <<>>)]}

\* Build going on with an empty snapshot when LoadLock fails
BuildIgnoringLockError(fsys, fault, sfp) ==
    LET old == LoadLock(fsys, fault)
        base == IF old.err # NoErr THEN EmptySchema ELSE old.schema[1]
    IN  IF sfp.err # NoErr
        THEN [mig |-> Nil, err |-> sfp.err,
              trace |-> <<"LoadLock", "SchemaFromPackages">>]
        ELSE [mig |-> Ptr(NewMigration(base, sfp.schema[1])),
              err |-> NoErr,
              trace |-> <<"LoadLock", "SchemaFromPackages", "NewMigration">>]

\* Build: [mig, err, trace], trace listing the collaborators invoked
Build(fsys, fault, sfp) ==
    LET old == LoadLock(fsys, fault)
    IN  IF old.err # NoErr
        THEN [mig |-> Nil, err |-> old.err, trace |-> <<"LoadLock">>]
        ELSE IF sfp.err # NoErr
        THEN [mig |-> Nil, err |-> sfp.err,
              trace |-> <<"LoadLock", "SchemaFromPackages">>]
        ELSE [mig |-> Ptr(NewMigration(old.schema[1], sfp.schema[1])),
              err |-> NoErr,
              trace |-> <<"LoadLock", "SchemaFromPackages", "NewMigration">>]

(***************************************************************************)
(* Actions of the migration generator                                      *)
(***************************************************************************)
\* names a generator is constructed with in the directory model
GenNames == {<<"A", " ", "z">>, <<"7", "!">>}

Tick ==
    /\ clock < 9 + MaxTicks
    /\ clock' = clock + 1
    /\ UNCHANGED <<rawName, name, fs, calls, ret, allOk, lastLock, genVars>>

Generate(migration, ocs) ==
    /\ calls < MaxCalls
    /\ LET r == GenerateResult(fs, name, migration, clock, ocs)
       IN  /\ fs' = r.fs
           /\ ret' = [op |-> "Generate", mig |-> migration, err |-> r.err,
                      log |-> r.log, nowCalls |-> r.nowCalls, t |-> r.t]
           /\ allOk' = (allOk /\ r.err = NoErr)
           /\ lastLock' = IF Len(migration.Up) > 0 /\ r.err = NoErr
                          THEN Ptr(migration.Lock) ELSE lastLock
    /\ calls' = calls + 1
    /\ UNCHANGED <<rawName, name, clock, genVars>>

LoadLockCall(fault) ==
    /\ LET r == LoadLock(fs, fault)
       IN  ret' = [op |-> "LoadLock", schema |-> r.schema, err |-> r.err,
                   fault |-> fault]
    /\ UNCHANGED <<rawName, name, clock, fs, calls, allOk, lastLock, genVars>>

BuildCall(fault, sfp) ==
    /\ LET r == Build(fs, fault, sfp)
       IN  ret' = [op |-> "Build", mig |-> r.mig, err |-> r.err,
                   trace |-> r.trace, fault |-> fault]
    /\ UNCHANGED <<rawName, name, clock, fs, calls, allOk, lastLock, genVars>>

(***************************************************************************)
(* Generator.writeFile                                                     *)
(***************************************************************************)
GenFiles == {"a.go", "b.go"}
Packages == {"p", "q"}

\* text Base.Execute renders for a package
Rendered(pkg) == <<<<pkg, 1>>, <<pkg, 2>>>>

\* outcome of Base.Execute: returns nil, returns an error or panics, after
\* having written n tokens
ExecOutcomes ==
    {[kind |-> "ok", n |-> 0]}
    \cup {[kind |-> k, n |-> i] : k \in {"error", "panic"}, i \in 0..MaxPartial}

\* writeFile whose deferred function recovers the panic without setting err
writeFileSwallowPanic(fsys, fname, pkg, createOk, exec, removeOk) ==
    IF ~createOk
    THEN [fs |-> fsys, err |-> Errorf("create", <<>>), propagated |-> FALSE,
          removeTried |-> FALSE]
    ELSE LET text == Rendered(pkg)
             written == IF exec.kind = "ok" THEN text
                        ELSE SubSeq(text, 1, Min(exec.n, Len(text)))
             fs1 == Put(fsys, fname, written)
             err1 == IF exec.kind = "error" THEN Errorf("execute", <<>>)
                     ELSE NoErr
         IN  IF err1 # NoErr
             THEN [fs |-> IF removeOk THEN Remove(fs1, fname) ELSE fs1,
                   err |-> err1, propagated |-> FALSE, removeTried |-> TRUE]
             ELSE [fs |-> fs1, err |-> err1, propagated |-> FALSE,
                   removeTried |-> FALSE]

\* writeFile: [fs, err, propagated, removeTried]
writeFile(fsys, fname, pkg, createOk, exec, removeOk) ==
    IF ~createOk
    THEN [fs |-> fsys, err |-> Errorf("create", <<>>), propagated |-> FALSE,
          removeTried |-> FALSE]
    ELSE LET text == Rendered(pkg)
             written == IF exec.kind = "ok" THEN text
                        ELSE SubSeq(text, 1, Min(exec.n, Len(text)))
             fs1 == Put(fsys, fname, written)
             \* err as the return statement leaves it; a panic unwinds
             \* before the return statement assigns it
             err1 == IF exec.kind = "error" THEN Errorf("execute", <<>>)
                     ELSE NoErr
             r == (exec.kind = "panic")
             err2 == IF r /\ err1 = NoErr THEN Errorf("stack", <<>>) ELSE err1
         IN  IF err2 # NoErr
             THEN [fs |-> IF removeOk THEN Remove(fs1, fname) ELSE fs1,
                   err |-> err2, propagated |-> FALSE, removeTried |-> TRUE]
             ELSE [fs |-> fs1, err |-> err2, propagated |-> FALSE,
                   removeTried |-> FALSE]

NewGenerator(f) ==
    /\ filename' = f
    /\ UNCHANGED <<rawName, name, migVars, gfs, gret>>

GeneratorGenerate(pkg, createOk, exec, removeOk) ==
    /\ LET r == writeFile(gfs, filename, pkg, createOk, exec, removeOk)
       IN  /\ gfs' = r.fs
           /\ gret' = [op |-> "Generate", file |-> filename, pkg |-> pkg,
                       createOk |-> createOk, exec |-> exec.kind,
                       removeOk |-> removeOk, err |-> r.err,
                       propagated |-> r.propagated,
                       removeTried |-> r.removeTried,
                       existed |-> filename \in DOMAIN gfs]
    /\ UNCHANGED <<rawName, name, migVars, filename>>

(***************************************************************************)
(* Specifications                                                          *)
(***************************************************************************)
InitGen ==
    /\ filename \in GenFiles
    /\ gfs = [x \in {} |-> <<>>]
    /\ gret = [op |-> "init"]

InitMig ==
    /\ clock = 9
    /\ fs \in {EmptyDir, Put(EmptyDir, lockFile, <<<<"}", 0>>, <<"{", 0>>>>)}
    /\ calls = 0
    /\ ret = [op |-> "init"]
    /\ allOk = TRUE
    /\ lastLock = Nil

\* the migrations directory driven by one MigrationGenerator
Init ==
    /\ rawName \in GenNames
    /\ name = slugify(rawName)
    /\ InitMig
    /\ filename = "a.go" /\ gfs = [x \in {} |-> <<>>] /\ gret = [op |-> "init"]

Next ==
    \/ Tick
    \/ \E m \in Migrations, ocs \in OutcomeVectors : Generate(m, ocs)
    \/ \E fault \in BOOLEAN : LoadLockCall(fault)
    \/ \E fault \in BOOLEAN, sfp \in SchemaResults : BuildCall(fault, sfp)

Spec == Init /\ [][Next]_vars

\* slugify applied to every bounded name
InitSlug ==
    /\ rawName \in Names
    /\ name = slugify(rawName)
    /\ InitMig /\ fs = EmptyDir
    /\ filename = "a.go" /\ gfs = [x \in {} |-> <<>>] /\ gret = [op |-> "init"]

NextSlug == \E n \in Names : NewMigrationGenerator(n)

SpecSlug == InitSlug /\ [][NextSlug]_vars

\* the template file generator
InitWriteFile ==
    /\ rawName = <<>> /\ name = slugify(<<>>)
    /\ InitMig /\ fs = EmptyDir
    /\ InitGen

NextWriteFile ==
    \/ \E f \in GenFiles : NewGenerator(f)
    \/ \E pkg \in Packages, createOk \in BOOLEAN, exec \in ExecOutcomes,
          removeOk \in BOOLEAN :
            GeneratorGenerate(pkg, createOk, exec, removeOk)

SpecWriteFile == InitWriteFile /\ [][NextWriteFile]_vars

(***************************************************************************)
(* Properties                                                              *)
(***************************************************************************)
IsGenerate == ret.op = "Generate"
NonEmptyRun == IsGenerate /\ Len(ret.mig.Up) > 0

downPath == migrationFile(name, migrationDown, ret.t)
upPath == migrationFile(name, migrationUp, ret.t)

WrittenInRun(f) ==
    \E i \in 1..Len(ret.log) : ret.log[i].file = f /\ ret.log[i].err = NoErr

\* C1: in every reachable state after Generate on a non-empty migration, if
\* the lock file holds the new snapshot written by that run then both script
\* files of that run exist (the lock is written only after the two scripts).
C1_LockOnlyAfterScripts ==
    (NonEmptyRun /\ WrittenInRun(lockFile)
        /\ fs[lockFile] = MarshalSchema(ret.mig.Lock))
    => (/\ downPath \in DOMAIN fs
        /\ upPath \in DOMAIN fs
        /\ WrittenInRun(downPath)
        /\ WrittenInRun(upPath))

\* C2: a Generate step on a migration with an empty Up list leaves every
\* file of the directory as it was, does not read the clock, attempts no
\* artifact and returns no error.
C2_EmptyWritesNothing ==
    [][(ret'.op = "Generate" /\ calls' = calls + 1 /\ Len(ret'.mig.Up) = 0)
        => (/\ fs' = fs
            /\ ret'.err = NoErr
            /\ ret'.nowCalls = 0
            /\ ret'.log = <<>>)]_vars

C2_Witness ==
    /\ IsGenerate
    /\ Len(ret.mig.Up) = 0
    /\ lockFile \in DOMAIN fs
    /\ allOk

\* C3: in a Generate call every attempted artifact but the last succeeded,
\* the returned error is the error of the last attempt, no artifact is
\* attempted twice, and on a non-empty migration nil is returned only when
\* all three artifacts were written in full.
C3_FailStopNoRetry ==
    IsGenerate =>
        /\ Len(ret.log) <= 3
        /\ \A i \in 1..(Len(ret.log) - 1) : ret.log[i].err = NoErr
        /\ \A i, j \in 1..Len(ret.log) :
               ret.log[i].file = ret.log[j].file => i = j
        /\ ret.err = (IF ret.log = <<>> THEN NoErr
                      ELSE ret.log[Len(ret.log)].err)
        /\ (NonEmptyRun /\ ret.err = NoErr) =>
               /\ Len(ret.log) = 3
               /\ {lockFile, downPath, upPath} \subseteq DOMAIN fs
               /\ fs[lockFile] = MarshalSchema(ret.mig.Lock)
               /\ fs[downPath] = MarshalChanges(ret.mig.Down)
               /\ fs[upPath] = MarshalChanges(ret.mig.Up)

C3_Witness ==
    /\ NonEmptyRun
    /\ Len(ret.log) = 2
    /\ ret.err # NoErr
    /\ calls = 2

\* C4: every error Generate returns for a failed artifact names the
\* artifact that failed (and with it, by the fixed order, the artifacts
\* written before it), at every failure point.
C4_ErrorNamesArtifact ==
    (IsGenerate /\ ret.err # NoErr)
        => ret.err.file = ret.log[Len(ret.log)].file

\* C5: LoadLock on a directory without a lock file returns the empty
\* snapshot and no error; on any other read failure it returns a nil
\* snapshot and an error; it never returns both a snapshot and an error.
C5_LoadLockBootstrap ==
    ret.op = "LoadLock" =>
        /\ lockFile \notin DOMAIN fs
              => (ret.schema = Ptr(EmptySchema) /\ ret.err = NoErr)
        /\ (lockFile \in DOMAIN fs /\ ret.fault)
              => (ret.schema = Nil /\ ret.err # NoErr)
        /\ ~(ret.schema # Nil /\ ret.err # NoErr)

C5_Witness ==
    /\ ret.op = "LoadLock"
    /\ lockFile \notin DOMAIN fs
    /\ calls > 0

CorruptLock ==
    /\ lockFile \in DOMAIN fs
    /\ fs[lockFile] \notin {MarshalSchema(S) : S \in Snapshots}

\* C6: with a lock file that exists, is read and does not parse, LoadLock
\* returns an error; Build returns a nil migration with that error, having
\* invoked neither the schema extractor nor the diff, and writes nothing.
C6_CorruptLockAborts ==
    /\ [](/\ (ret.op = "LoadLock" /\ CorruptLock /\ ~ret.fault)
                => (/\ ret.schema = Nil
                    /\ ret.err = Errorf("error unmarshaling lock schema", <<>>))
          /\ (ret.op = "Build" /\ CorruptLock /\ ~ret.fault)
                => (/\ ret.mig = Nil
                    /\ ret.err = LoadLock(fs, FALSE).err
                    /\ ret.err # NoErr
                    /\ ret.trace = <<"LoadLock">>))
    /\ [][ret'.op = "Build" => fs' = fs]_vars

C6_Witness ==
    /\ ret.op = "Build"
    /\ CorruptLock
    /\ ~ret.fault
    /\ calls > 0

SlugChars == {"a", "z", "k", "7", "_"}
Separators == {" ", "_", "-"}

\* the rune a name's rune contributes to the slug, <<>> when it is removed
SlugOf(r) ==
    IF r \in {"A", "a"} THEN <<"a">>
    ELSE IF r \in {"z"} THEN <<"z">>
    ELSE IF r \in {"KELVIN", "k"} THEN <<"k">>
    ELSE IF r \in {"7"} THEN <<"7">>
    ELSE IF r \in Separators THEN <<"_">>
    ELSE <<>>

Kept(str) == {i \in 1..Len(str) : SlugOf(str[i]) # <<>>}

\* C7: the slug holds only characters of [a-z0-9_]; it is the name with
\* its letters lowercased, each space, underscore and hyphen turned into an
\* underscore and every other character removed, in the original order.
C7_SlugShape ==
    /\ \A i \in 1..Len(name) : name[i] \in SlugChars
    /\ Len(name) = Cardinality(Kept(rawName))
    /\ \A i \in Kept(rawName) :
          name[Cardinality({j \in Kept(rawName) : j <= i})] = SlugOf(rawName[i])[1]

C7_Witness == rawName = <<"A", "-", "!">>

IsDigit(c) == c \in {"0", "1", "2", "3", "4", "5", "6", "7", "8", "9"}

DigitValue(c) == CHOOSE d \in 0..9 : DigitChar(d) = c

RECURSIVE Atoi(_)
Atoi(ds) ==
    IF Len(ds) = 0 THEN 0
    ELSE 10 * Atoi(SubSeq(ds, 1, Len(ds) - 1)) + DigitValue(ds[Len(ds)])

\* path is {dir}/{ts}_{slug}.{ext} for the given timestamp and slug
IsScriptPath(path, ts, slug, ext) ==
    \E k \in 1..Len(path) :
        /\ \A i \in 1..k : IsDigit(path[2 + i])
        /\ Atoi(SubSeq(path, 3, 2 + k)) = ts
        /\ path = <<"m", "/">> \o SubSeq(path, 3, 2 + k) \o <<"_">> \o slug
                    \o <<".">> \o ext

\* C8: in one Generate call the clock is read once; the scripts are named
\* {ts}_{slug}.down.sql and {ts}_{slug}.up.sql with that one timestamp and
\* the generator's slug; the lock is always lock.json of the directory.
C8_ArtifactNames ==
    NonEmptyRun =>
        /\ ret.nowCalls = 1
        /\ ret.log[1].file = <<"m", "/", "l", "o", "c", "k", ".", "j", "s", "o", "n">>
        /\ Len(ret.log) >= 2 =>
              IsScriptPath(ret.log[2].file, ret.t, name,
                           <<"d", "o", "w", "n", ".", "s", "q", "l">>)
        /\ Len(ret.log) >= 3 =>
              IsScriptPath(ret.log[3].file, ret.t, name,
                           <<"u", "p", ".", "s", "q", "l">>)

C8_Witness ==
    /\ NonEmptyRun
    /\ Len(ret.log) = 3
    /\ ret.err = NoErr
    /\ ret.t = 10

\* C9: after Generate on a non-empty migration returns nil, three distinct
\* artifacts were written and LoadLock (its read succeeding) returns the
\* migration's Lock; while every Generate call so far succeeded, LoadLock
\* returns, and Build diffs against, the Lock of the last non-empty one.
C9_LockRoundTrip ==
    /\ (NonEmptyRun /\ ret.err = NoErr) =>
          /\ Cardinality({ret.log[i].file : i \in 1..Len(ret.log)}) = 3
          /\ \A i \in 1..Len(ret.log) : ret.log[i].err = NoErr
          /\ LoadLock(fs, FALSE) = [schema |-> Ptr(ret.mig.Lock), err |-> NoErr]
    /\ (allOk /\ lastLock # Nil) =>
          /\ LoadLock(fs, FALSE) = [schema |-> lastLock, err |-> NoErr]
          /\ (ret.op = "LoadLock" /\ ~ret.fault) =>
                (ret.schema = lastLock /\ ret.err = NoErr)
          /\ (ret.op = "Build" /\ ~ret.fault /\ ret.err = NoErr) =>
                ret.mig[1].Up = Diff(lastLock[1], ret.mig[1].Lock)

C9_Witness ==
    /\ allOk
    /\ lastLock # Nil
    /\ calls = 2
    /\ ret.op = "LoadLock"
    /\ ~ret.fault
    /\ lastLock[1] # EmptySchema

GenFailed == gret.exec \in {"error", "panic"}

\* C10 as stated: once the file is created, a failing or panicking
\* execution returns an error, the panic does not propagate and the output
\* file is removed; a successful one keeps the file and returns nil; a
\* failed creation returns the error.
C10_AlwaysRemoved ==
    gret.op = "Generate" =>
        /\ (gret.createOk /\ GenFailed) =>
              (/\ gret.err # NoErr
               /\ ~gret.propagated
               /\ gret.file \notin DOMAIN gfs)
        /\ (gret.createOk /\ gret.exec = "ok") =>
              (/\ gret.err = NoErr
               /\ gret.file \in DOMAIN gfs
               /\ gfs[gret.file] = Rendered(gret.pkg))
        /\ ~gret.createOk => gret.err # NoErr

\* C10 amended: as above, except that the file is removed only when the
\* removal itself succeeds; otherwise the file remains and the error is
\* still returned.  A failed creation changes no file.
C10_RemovedUnlessRemoveFails ==
    /\ [](gret.op = "Generate" =>
            /\ (gret.createOk /\ GenFailed) =>
                  (/\ gret.err # NoErr
                   /\ ~gret.propagated
                   /\ gret.removeTried
                   /\ gret.removeOk => gret.file \notin DOMAIN gfs
                   /\ ~gret.removeOk => gret.file \in DOMAIN gfs)
            /\ (gret.createOk /\ gret.exec = "ok") =>
                  (/\ gret.err = NoErr
                   /\ ~gret.removeTried
                   /\ gret.file \in DOMAIN gfs
                   /\ gfs[gret.file] = Rendered(gret.pkg))
            /\ ~gret.createOk => (gret.err # NoErr /\ ~gret.removeTried))
    /\ [][(gret'.op = "Generate" /\ ~gret'.createOk) => gfs' = gfs]_vars

C10_Witness ==
    /\ gret.op = "Generate"
    /\ gret.createOk
    /\ gret.exec = "panic"
    /\ gret.removeOk
    /\ gret.existed

====
